---- MODULE Spec2Model ----
(***************************************************************************)
(* Rolling z-score anomaly detector of project.py.                         *)
(*                                                                         *)
(* Numbers are exact rationals <<n, d>> (d > 0, lowest terms).  A standard *)
(* deviation is kept as the symbolic non-negative root [root_of |-> v] of  *)
(* a rational v, so that np.sqrt and ** 2 are modelled without rounding.   *)
(* A z-score is kept as [sign |-> s, sq |-> q], i.e. s * sqrt(q).          *)
(***************************************************************************)
EXTENDS Integers, Sequences, FiniteSets, TLC

\* ---------------------------------------------------------------- bounds
MaxTicks == 6
MaxValue == 1
MaxWindow == 3

Values == (0 - MaxValue)..MaxValue
WindowSizes == (0 - 1)..MaxWindow
Thresholds == {1, 3}

Scenario == [window_size |-> 5, threshold |-> 3,
             stream |-> <<1, 1, 1, 1, 1, 1, 50, 1, 1, 1>>]
ScenarioValues == {Scenario.stream[i] : i \in DOMAIN Scenario.stream}

\* ------------------------------------------------------ exact arithmetic
Abs(n) == IF n < 0 THEN 0 - n ELSE n

RECURSIVE GCD(_, _)
GCD(a, b) == IF b = 0 THEN a ELSE GCD(b, a % b)

LCM(a, b) == (a \div GCD(a, b)) * b

Norm(n, d) ==
    LET g == GCD(Abs(n), Abs(d))
        s == IF d < 0 THEN 0 - 1 ELSE 1
    IN  <<(s * n) \div g, (s * d) \div g>>

Num(n) == <<n, 1>>

Add(a, b) ==
    LET l == LCM(a[2], b[2])
    IN  Norm(a[1] * (l \div a[2]) + b[1] * (l \div b[2]), l)

Sub(a, b) == Add(a, <<0 - b[1], b[2]>>)

Mul(a, b) ==
    LET g1 == GCD(Abs(a[1]), b[2])
        g2 == GCD(Abs(b[1]), a[2])
    IN  Norm((a[1] \div g1) * (b[1] \div g2), (a[2] \div g2) * (b[2] \div g1))

Div(a, b) == Mul(a, Norm(b[2], b[1]))

Lt(a, b) ==
    LET l == LCM(a[2], b[2])
    IN  a[1] * (l \div a[2]) < b[1] * (l \div b[2])

Sq(a) == Mul(a, a)

NpSqrt(v) == [root_of |-> v]

Pow2(s) == s.root_of

\* ------------------------------------------------------- numpy reductions
RECURSIVE SumSeq(_)
SumSeq(s) == IF s = <<>> THEN 0 ELSE Head(s) + SumSeq(Tail(s))

NpMean(s) == Norm(SumSeq(s), Len(s))

RECURSIVE SumSqDev(_, _)
SumSqDev(s, m) ==
    IF s = <<>> THEN Num(0)
    ELSE Add(Sq(Sub(Num(Head(s)), m)), SumSqDev(Tail(s), m))

NpVar(s) == Div(SumSqDev(s, NpMean(s)), Num(Len(s)))

NpStd(s) == NpSqrt(NpVar(s))

\* ------------------------------------------------------- update_mean_std
\* variant: the negative-variance guard is missing
ClampVarianceOff(v) == v

ClampVariance(v) == IF Lt(v, Num(0)) THEN Num(0) ELSE v

\* variant: the leaving value is not removed from the mean
NewMeanKeepsOld(prev_mean, new_data, old_data, w) ==
    Add(prev_mean, Div(Num(new_data), Num(w)))

NewMean(prev_mean, new_data, old_data, w) ==
    Add(prev_mean, Div(Num(new_data - old_data), Num(w)))

\* variant: the leaving value's squared deviation is added, not subtracted
NewVarianceAddsOld(prev_mean, prev_std, new_data, old_data, w) ==
    LET new_mean == NewMean(prev_mean, new_data, old_data, w)
    IN  Div(Add(Add(Mul(Pow2(prev_std), Num(w - 1)),
                    Sq(Sub(Num(old_data), prev_mean))),
                Sq(Sub(Num(new_data), new_mean))),
            Num(w))

NewVariance(prev_mean, prev_std, new_data, old_data, w) ==
    LET new_mean == NewMean(prev_mean, new_data, old_data, w)
    IN  Div(Add(Sub(Mul(Pow2(prev_std), Num(w - 1)),
                    Sq(Sub(Num(old_data), prev_mean))),
                Sq(Sub(Num(new_data), new_mean))),
            Num(w))

update_mean_std(prev_mean, prev_std, new_data, old_data, w) ==
    LET raw == NewVariance(prev_mean, prev_std, new_data, old_data, w)
        v == ClampVariance(raw)
    IN  [new_mean |-> NewMean(prev_mean, new_data, old_data, w),
         raw_variance |-> raw,
         new_variance |-> v,
         new_std |-> NpSqrt(v)]

\* ------------------------------------------------------------ z-score
Zero == [sign |-> 0, sq |-> Num(0)]

Sign(a) == IF a[1] < 0 THEN 0 - 1 ELSE IF a[1] > 0 THEN 1 ELSE 0

\* variant: the deviation is taken as mean - data_point
ZScoreSwapped(data_point, m, sd) ==
    IF sd # NpSqrt(Num(0))
    THEN LET dev == Sub(m, Num(data_point))
         IN  [sign |-> Sign(dev), sq |-> Div(Sq(dev), Pow2(sd))]
    ELSE Zero

ZScore(data_point, m, sd) ==
    IF sd # NpSqrt(Num(0))
    THEN LET dev == Sub(Num(data_point), m)
         IN  [sign |-> Sign(dev), sq |-> Div(Sq(dev), Pow2(sd))]
    ELSE Zero

IsAnomaly(z, thr) == Lt(Num(thr * thr), z.sq)

\* ------------------------------------------------------------ deque
\* variant: a full window drops its newest element instead of its oldest
DequeAppendDropsNewest(win, x, maxlen) ==
    IF maxlen = 0 THEN win
    ELSE IF Len(win) = maxlen THEN Append(SubSeq(win, 1, Len(win) - 1), x)
    ELSE Append(win, x)

DequeAppend(win, x, maxlen) ==
    IF maxlen = 0 THEN win
    ELSE IF Len(win) = maxlen THEN Append(Tail(win), x)
    ELSE Append(win, x)

DequeEvicted(win, maxlen) ==
    IF maxlen # 0 /\ Len(win) = maxlen THEN <<Head(win)>> ELSE <<>>

\* variant: the window counts as full one element early
WindowFullEarly(win, w) == Len(win) >= w - 1

WindowFull(win, w) == Len(win) = w

\* ------------------------------------------------------------ state
VARIABLES
    window_size,    \* argument of detect_and_visualize_anomalies
    threshold,      \* argument of detect_and_visualize_anomalies
    pc,             \* "start", "loop", "ValueError", "IndexError"
    data_window,    \* deque(maxlen=window_size)
    mean,           \* rational
    std_dev,        \* symbolic root
    stream_data,    \* classified points, in order
    anomaly_points, \* per classified point: <<point>> if anomaly, <<>> for nan
    consumed,       \* values pulled from data_stream so far
    old_data,       \* <<data_window[0]>> of the last full-window tick
    evicted,        \* what the last data_window.append dropped
    upd,            \* result of the last update_mean_std call
    z_score,        \* z-score of the last classified point
    seeds           \* number of executions of the np.mean/np.std line

vars == <<window_size, threshold, pc, data_window, mean, std_dev, stream_data,
          anomaly_points, consumed, old_data, evicted, upd, z_score, seeds>>

NoUpdate == [new_mean |-> Num(0), raw_variance |-> Num(0), new_variance |-> Num(0), new_std |-> NpSqrt(Num(0))]

Locals0 ==
    /\ data_window = <<>>
    /\ mean = Num(0)
    /\ std_dev = NpSqrt(Num(0))
    /\ stream_data = <<>>
    /\ anomaly_points = <<>>
    /\ consumed = <<>>
    /\ old_data = <<>>
    /\ evicted = <<>>
    /\ upd = NoUpdate
    /\ z_score = Zero
    /\ seeds = 0

Init ==
    /\ window_size \in WindowSizes
    /\ threshold \in Thresholds
    /\ pc = "start"
    /\ Locals0

Construct ==
    /\ pc = "start"
    /\ pc' = IF window_size < 0 THEN "ValueError" ELSE "loop"
    /\ UNCHANGED <<window_size, threshold, data_window, mean, std_dev,
                   stream_data, anomaly_points, consumed, old_data, evicted,
                   upd, z_score, seeds>>

Process(data_point) ==
    /\ pc = "loop"
    /\ consumed' = Append(consumed, data_point)
    /\ UNCHANGED <<window_size, threshold>>
    /\ IF WindowFull(data_window, window_size) /\ data_window = <<>>
       THEN /\ pc' = "IndexError"
            /\ UNCHANGED <<data_window, mean, std_dev, stream_data,
                           anomaly_points, old_data, evicted, upd, z_score,
                           seeds>>
       ELSE LET full == WindowFull(data_window, window_size)
                u == IF full
                     THEN update_mean_std(mean, std_dev, data_point,
                                          Head(data_window), window_size)
                     ELSE upd
                mean1 == IF full THEN u.new_mean ELSE mean
                std1 == IF full THEN u.new_std ELSE std_dev
                z == IF full THEN ZScore(data_point, mean1, std1) ELSE z_score
                win == DequeAppend(data_window, data_point, window_size)
                seed == /\ Len(win) = window_size
                        /\ mean1 = Num(0)
                        /\ std1 = NpSqrt(Num(0))
            IN  /\ pc' = "loop"
                /\ old_data' = IF full THEN <<Head(data_window)>> ELSE old_data
                /\ upd' = u
                /\ z_score' = z
                /\ stream_data' = IF full THEN Append(stream_data, data_point)
                                  ELSE stream_data
                /\ anomaly_points' =
                      IF full
                      THEN Append(anomaly_points,
                                  IF IsAnomaly(z, threshold)
                                  THEN <<data_point>> ELSE <<>>)
                      ELSE anomaly_points
                /\ evicted' = DequeEvicted(data_window, window_size)
                /\ data_window' = win
                /\ mean' = IF seed THEN NpMean(win) ELSE mean1
                /\ std_dev' = IF seed THEN NpStd(win) ELSE std1
                /\ seeds' = IF seed THEN seeds + 1 ELSE seeds

Tick ==
    /\ Len(consumed) < MaxTicks
    /\ \E data_point \in Values : Process(data_point)

Next == Construct \/ Tick

Spec == Init /\ [][Next]_vars

InitScenario ==
    /\ window_size = Scenario.window_size
    /\ threshold = Scenario.threshold
    /\ pc = "loop"
    /\ Locals0

ProcessScenario ==
    /\ Len(consumed) < Len(Scenario.stream)
    /\ \E data_point \in ScenarioValues : Process(data_point)

SpecScenario == InitScenario /\ [][ProcessScenario]_vars

\* ------------------------------------------------------------ properties
Max(a, b) == IF a > b THEN a ELSE b

Min(a, b) == IF a < b THEN a ELSE b

Last(s) == s[Len(s)]

Leq(a, b) == ~Lt(b, a)

Prefix(k) == SubSeq(Scenario.stream, 1, k)

Flat(s) == \A i \in DOMAIN s : s[i] = s[1]

\* The last step classified a point: update_mean_std ran and a record was emitted.
ClassifiedTick == pc = "loop" /\ window_size >= 1 /\ Len(consumed) > window_size

\* z-score of the newest point against the directly computed window statistics
TrueZSq(win) ==
    IF NpVar(win) = Num(0) THEN Num(0)
    ELSE Div(Sq(Sub(Num(Last(win)), NpMean(win))), NpVar(win))

\* C1: at every classified tick (window_size >= 2) the mean and variance
\* returned by update_mean_std equal the mean and population variance
\* computed directly over the current window.
C1_IncrementalMatchesDirect ==
    (ClassifiedTick /\ window_size >= 2) =>
        /\ upd.new_mean = NpMean(data_window)
        /\ upd.new_variance = NpVar(data_window)

\* C2 (as stated): in the scenario the 50 on tick 7 has |z| > 3 and is an
\* anomaly, and the 1s on ticks 8..10 are not anomalies.
C2_FiftyIsAnomaly ==
    /\ consumed = Prefix(7) =>
           /\ Lt(Num(9), z_score.sq)
           /\ Last(anomaly_points) = <<50>>
    /\ \A k \in 8..10 : consumed = Prefix(k) => Last(anomaly_points) = <<>>

\* C2 (amended): in the scenario the 50 on tick 7 gets z = sqrt(5) (about
\* 2.236, not above 3) and is not an anomaly; the 1s on ticks 8..10 are not
\* anomalies either.
C2_FiftyNotFlagged ==
    /\ consumed = Prefix(7) =>
           /\ z_score = [sign |-> 1, sq |-> Num(5)]
           /\ Last(anomaly_points) = <<>>
    /\ \A k \in 8..10 : consumed = Prefix(k) => Last(anomaly_points) = <<>>

C2_Witness == consumed = Scenario.stream /\ Len(anomaly_points) = 5

\* C3: for window_size >= 1 nothing is classified on the first window_size
\* ticks and exactly one point per later tick, in arrival order: after n ticks
\* max(0, n - window_size) classifications were emitted.
C3_ClassificationCount ==
    (pc = "loop" /\ window_size >= 1) =>
        /\ Len(stream_data) = Max(0, Len(consumed) - window_size)
        /\ Len(anomaly_points) = Len(stream_data)
        /\ stream_data = SubSeq(consumed, window_size + 1, Len(consumed))
        /\ (Len(consumed) <= window_size => z_score = Zero /\ upd = NoUpdate)

C3_Witness ==
    /\ pc = "loop" /\ window_size >= 2
    /\ Len(consumed) >= window_size + 2
    /\ Len(stream_data) = Len(consumed) - window_size

\* C4: the direct seeding from the full window runs exactly once, on the tick
\* the window first becomes full, and never again.
C4_SeededExactlyOnce ==
    (pc = "loop" /\ window_size >= 1) =>
        seeds = (IF Len(consumed) >= window_size THEN 1 ELSE 0)

\* C5: a window_size below 2 is rejected at construction, before any value
\* is consumed.
C5_SmallWindowRejected ==
    window_size < 2 => pc \in {"start", "ValueError"}

C7_WindowIsRecentSuffix ==
    (pc = "loop" /\ window_size >= 1) =>
        LET n == Len(consumed)
            k == Min(n, window_size)
        IN  /\ data_window = SubSeq(consumed, n - k + 1, n)
            /\ Len(data_window) = k
            /\ (n > window_size =>
                   /\ old_data = evicted
                   /\ old_data = <<consumed[n - window_size]>>)
            /\ (n <= window_size => evicted = <<>> /\ old_data = <<>>)

C7_Witness ==
    /\ pc = "loop" /\ window_size >= 2
    /\ Len(consumed) >= window_size + 2
    /\ old_data # <<>> /\ old_data = evicted
    /\ ~Flat(consumed)

\* C8: the variance handed to the square root is never negative, and so
\* std_dev is never negative.
C8_VarianceNonNegative ==
    /\ Leq(Num(0), upd.new_variance)
    /\ Leq(Num(0), Pow2(upd.new_std))
    /\ Leq(Num(0), Pow2(std_dev))

C8_Witness == ClassifiedTick /\ Lt(upd.raw_variance, Num(0)) /\ ~Flat(data_window)

\* C9: at the end of every tick with a full window the tracked mean equals
\* the arithmetic mean of the window.
C9_MeanExact ==
    (pc = "loop" /\ window_size >= 1 /\ Len(data_window) = window_size) =>
        mean = NpMean(data_window)

C9_Witness ==
    /\ ClassifiedTick /\ window_size >= 2 /\ seeds >= 2
    /\ Len(consumed) >= window_size + 2
    /\ ~Flat(consumed)
    /\ upd.new_variance # NpVar(data_window)

\* C10: for window_size >= 2 the tracked variance never exceeds the true
\* population variance of the window, and the z-score magnitude computed from
\* it is never smaller than the true z-score magnitude of the point.
C10_NeverUnderstatesZ ==
    (ClassifiedTick /\ window_size >= 2) =>
        /\ Leq(upd.new_variance, NpVar(data_window))
        /\ Leq(TrueZSq(data_window), z_score.sq)

\* Variance half of C10 alone.
C10_VarianceNotAbove ==
    (ClassifiedTick /\ window_size >= 2) =>
        Leq(upd.new_variance, NpVar(data_window))
====
